---- MODULE Spec2Model ----
(***************************************************************************)
(* Model of the house-orientation scripts:                                 *)
(*   house_orientation.py      manual 2-click / 4-click workflows          *)
(*   house_orientation_v2.py   OCR label variant (find_orientation)        *)
(*   improved_orientation.py   nearest road from a geocoded address        *)
(*                                                                         *)
(* Numbers.  Angles are Python floats in degrees.  An angle is modelled as *)
(* a record [d, eps] standing for d/10 degrees + eps*tiny, where tiny is a *)
(* positive float smaller than half the float spacing just below 360.0     *)
(* (2^-45 degrees), e.g. 1e-20.  eps is non-zero only together with d = 0, *)
(* so every modelled angle is a value a float can hold.  Coordinates are   *)
(* integers; midpoints, unit vectors and projections are kept as exact     *)
(* fractions (see Vec and the nearest-point operators).                    *)
(***************************************************************************)
EXTENDS Integers, Sequences, FiniteSets

\* ----- bounds of the model -----
\* pixel coordinates of a click are PixelStep * (0..GridMax)
GridMax == 2
\* angles handed to the pure functions cover MaxTurns full turns either side of 0
MaxTurns == 2
\* vector components handed to the bearing functions are -VecMax..VecMax
VecMax == 3
\* roads returned by the road query: 0..MaxRoads
MaxRoads == 2
\* words returned by the OCR: 0..MaxWords
MaxWords == 3

\* ----- program constants, in tenths of a degree -----
FullTurn == 3600
HalfSector == 225
Sector == 450
LongWord == 4

Abs(n) == IF n < 0 THEN -n ELSE n

RECURSIVE GCD(_, _)
GCD(m, n) == IF n = 0 THEN m ELSE GCD(n, m % n)

\* ----- math.atan2 / math.degrees -----
\* HalfTan[k] = tan((2k-1) * 0.05 degrees) * 10^6, k = 1..450: the tangents of the
\* angles halfway between consecutive tenths of a degree in 0..45 degrees.
HalfTan == <<
    873, 2618, 4363, 6109, 7854, 9600, 11345, 13091, 14836, 16582,
    18328, 20074, 21820, 23566, 25313, 27059, 28806, 30553, 32300, 34047,
    35795, 37542, 39290, 41038, 42787, 44535, 46284, 48033, 49783, 51533,
    53283, 55033, 56784, 58535, 60287, 62039, 63791, 65543, 67296, 69050,
    70804, 72558, 74313, 76068, 77824, 79580, 81336, 83094, 84851, 86609,
    88368, 90127, 91887, 93647, 95408, 97170, 98932, 100695, 102458, 104222,
    105987, 107752, 109518, 111284, 113052, 114820, 116588, 118358, 120128, 121899,
    123670, 125443, 127216, 128990, 130765, 132540, 134317, 136094, 137872, 139651,
    141431, 143212, 144993, 146776, 148559, 150343, 152129, 153915, 155702, 157490,
    159279, 161069, 162860, 164652, 166446, 168240, 170035, 171831, 173629, 175427,
    177227, 179028, 180829, 182632, 184437, 186242, 188048, 189856, 191665, 193475,
    195286, 197099, 198912, 200727, 202544, 204361, 206180, 208000, 209822, 211645,
    213469, 215294, 217121, 218950, 220779, 222610, 224443, 226277, 228112, 229949,
    231788, 233627, 235469, 237312, 239156, 241002, 242849, 244698, 246549, 248401,
    250255, 252111, 253968, 255826, 257687, 259549, 261413, 263278, 265145, 267014,
    268885, 270757, 272631, 274507, 276385, 278265, 280146, 282029, 283914, 285801,
    287690, 289581, 291473, 293368, 295265, 297163, 299063, 300966, 302870, 304777,
    306685, 308596, 310508, 312423, 314340, 316258, 318179, 320103, 322028, 323955,
    325885, 327817, 329751, 331687, 333625, 335566, 337509, 339454, 341402, 343352,
    345304, 347259, 349216, 351175, 353137, 355101, 357068, 359037, 361008, 362982,
    364959, 366938, 368919, 370904, 372890, 374880, 376872, 378866, 380863, 382863,
    384866, 386871, 388879, 390889, 392903, 394919, 396938, 398960, 400984, 403011,
    405042, 407075, 409111, 411150, 413192, 415236, 417284, 419335, 421389, 423445,
    425505, 427568, 429634, 431703, 433775, 435850, 437929, 440011, 442095, 444183,
    446275, 448369, 450467, 452568, 454673, 456781, 458892, 461006, 463124, 465246,
    467371, 469499, 471631, 473766, 475905, 478047, 480193, 482343, 484496, 486653,
    488813, 490978, 493145, 495317, 497492, 499672, 501855, 504041, 506232, 508427,
    510625, 512828, 515034, 517244, 519458, 521677, 523899, 526125, 528356, 530591,
    532829, 535072, 537319, 539571, 541826, 544086, 546350, 548619, 550892, 553169,
    555450, 557736, 560027, 562322, 564621, 566925, 569234, 571547, 573865, 576187,
    578514, 580846, 583183, 585524, 587870, 590221, 592577, 594937, 597303, 599674,
    602049, 604429, 606815, 609205, 611601, 614002, 616408, 618819, 621235, 623657,
    626083, 628516, 630953, 633396, 635844, 638298, 640757, 643222, 645692, 648168,
    650649, 653136, 655629, 658127, 660631, 663141, 665657, 668179, 670706, 673240,
    675779, 678324, 680876, 683433, 685997, 688567, 691143, 693725, 696313, 698908,
    701509, 704116, 706730, 709350, 711977, 714611, 717250, 719897, 722550, 725210,
    727877, 730550, 733230, 735917, 738611, 741312, 744020, 746735, 749458, 752187,
    754923, 757667, 760418, 763176, 765941, 768714, 771495, 774283, 777078, 779881,
    782692, 785510, 788336, 791170, 794012, 796862, 799719, 802585, 805458, 808340,
    811230, 814128, 817034, 819949, 822872, 825803, 828743, 831691, 834648, 837614,
    840588, 843571, 846562, 849563, 852573, 855591, 858619, 861655, 864701, 867756,
    870820, 873894, 876976, 880069, 883171, 886282, 889403, 892534, 895675, 898825,
    901985, 905156, 908336, 911526, 914727, 917938, 921159, 924390, 927632, 930885,
    934148, 937422, 940706, 944001, 947307, 950624, 953953, 957292, 960642, 964004,
    967377, 970761, 974157, 977564, 980983, 984414, 987857, 991311, 994778, 998256
>>

\* largest k in lo..hi with k = 0 or HalfTan[k] * x <= y * 10^6
RECURSIVE Bisect(_, _, _, _)
Bisect(lo, hi, y, x) ==
    IF lo = hi THEN lo
    ELSE LET mid == (lo + hi + 1) \div 2
         IN  IF HalfTan[mid] * x <= y * 1000000
             THEN Bisect(mid, hi, y, x)
             ELSE Bisect(lo, mid - 1, y, x)

\* degrees(atan(y / x)) for 0 <= y <= x, x > 0, to the nearest tenth of a degree
AtanOctant(y, x) == Bisect(0, 450, y, x)

\* degrees(atan2(y, x)) for x >= 0, y >= 0, not both 0
AtanQuadrant(y, x) == IF y <= x THEN AtanOctant(y, x) ELSE 900 - AtanOctant(x, y)

\* degrees(math.atan2(y, x)) in tenths of a degree.  x_negzero says that a zero x
\* is the float -0.0: atan2(0.0, -0.0) is pi, atan2(0.0, 0.0) is 0.  The result
\* does not depend on a common positive factor of y and x, which is divided out.
Atan2Deg(y0, x0, x_negzero) ==
    IF x0 = 0 /\ y0 = 0 THEN (IF x_negzero THEN 1800 ELSE 0)
    ELSE LET g == GCD(Abs(y0), Abs(x0))
             y == y0 \div g
             x == x0 \div g
         IN  IF y >= 0
             THEN (IF x >= 0 THEN AtanQuadrant(y, x) ELSE 1800 - AtanQuadrant(y, -x))
             ELSE (IF x >= 0 THEN -AtanQuadrant(-y, x) ELSE AtanQuadrant(-y, -x) - 1800)

\* an exact float angle of d tenths of a degree
Fl(d) == [d |-> d, eps |-> 0]

\* Python's float x % 360.0 (CPython float_rem): mod = fmod(x, 360.0), exact, with
\* the sign of x; when mod is non-zero and negative, mod += 360.0, a ROUNDED float
\* addition.  For mod = -tiny the sum 360 - tiny rounds to 360.0.
PyMod360(a) ==
    IF a.eps = 0 THEN Fl(a.d % FullTurn)
    ELSE IF a.eps > 0 THEN a
    ELSE Fl(FullTurn)

Less0(a) == a.d < 0 \/ (a.d = 0 /\ a.eps < 0)

\* ----- exact arithmetic helpers -----
\* A point or vector (x, y) / (k * sqrt(r)), k > 0, r > 0.  A clicked pixel or a
\* projected vertex has k = r = 1, a midpoint k = 2, a unit vector r = x^2 + y^2.
Vec(x, y) == [x |-> x, y |-> y, k |-> 1, r |-> 1]

\* a real number num / (k * sqrt(r))
RealGE(a, b) ==
    LET A == a.num * b.k
        B == b.num * a.k
    IN  IF A >= 0 /\ B <= 0 THEN TRUE
        ELSE IF A < 0 /\ B >= 0 THEN FALSE
        ELSE IF A >= 0 THEN A * A * b.r >= B * B * a.r
        ELSE A * A * b.r <= B * B * a.r

\* ===================== house_orientation.py =====================

normalize_angle_deg(a) ==
    LET m == PyMod360(a)
    IN  IF Less0(m) THEN [m EXCEPT !.d = m.d + FullTurn] ELSE m

\* faulty variant: atan2(dx, dy), the y axis taken as pointing up
bearing_from_vector_yup(dx, dy) ==
    normalize_angle_deg(Fl(Atan2Deg(dx, dy, FALSE)))

\* rad = atan2(dx, -dy): -dy of the float 0.0 is -0.0.  dx, dy may carry a common
\* positive factor (atan2 does not depend on it).
bearing_from_vector(dx, dy) ==
    normalize_angle_deg(Fl(Atan2Deg(dx, -dy, dy = 0)))

Dirs == <<"N", "NE", "E", "SE", "S", "SW", "W", "NW">>

\* faulty variant: the half-sector shift is left out
compass_8_noshift(bearing_deg) ==
    Dirs[((bearing_deg.d \div Sector) % 8) + 1]

\* bearing_deg + 22.5 is a float sum, so a tiny eps is absorbed by the 22.5
compass_8(bearing_deg) ==
    Dirs[(((bearing_deg.d + HalfSector) \div Sector) % 8) + 1]

midpoint(p1, p2) ==
    [x |-> p1.x + p2.x, y |-> p1.y + p2.y, k |-> 2 * p1.k, r |-> p1.r]

subtract(p1, p0) ==
    [x |-> p1.x * p0.k - p0.x * p1.k, y |-> p1.y * p0.k - p0.y * p1.k,
     k |-> p1.k * p0.k, r |-> 1]

dot(u, v) == [num |-> u.x * v.x + u.y * v.y, k |-> u.k * v.k, r |-> u.r * v.r]

perp(v) == [v EXCEPT !.x = -v.y, !.y = v.x]

scale(v, s) == [v EXCEPT !.x = v.x * s, !.y = v.y * s]

\* (v[0]/n, v[1]/n) if n != 0 else (0.0, 0.0); the quotient is kept in lowest terms
unit(v) ==
    IF v.x = 0 /\ v.y = 0 THEN Vec(0, 0)
    ELSE LET g == GCD(Abs(v.x), Abs(v.y))
         IN  [x |-> v.x \div g, y |-> v.y \div g, k |-> 1,
              r |-> (v.x \div g) * (v.x \div g) + (v.y \div g) * (v.y \div g)]

\* plt.ginput(n, timeout=-1): up to n clicks (the user may stop early)
PixelStep == 5
PixelPts == {Vec(PixelStep * i, PixelStep * j) : i \in 0..GridMax, j \in 0..GridMax}

SeqsUpTo(S, n) == UNION {[1..m -> S] : m \in 0..n}

ginput(n) == SeqsUpTo(PixelPts, n)

\* faulty variant: only too many clicks are refused
get_points_raises_gt(pts, n) == Len(pts) > n

\* if len(pts) != n: raise RuntimeError
get_points_raises(pts, n) == Len(pts) # n

\* workflow_vector after get_points
vector_result(pts) ==
    LET v == subtract(pts[2], pts[1])
        b == bearing_from_vector(v.x, v.y)
    IN  [b |-> b, c |-> compass_8(b)]

\* faulty variant: the comparison is turned round
choose_face_min(n_left, n_right, to_street) ==
    IF RealGE(dot(n_right, to_street), dot(n_left, to_street)) THEN n_left ELSE n_right

\* faulty variant: no disambiguation, always n_left
choose_face_left(n_left, n_right, to_street) == n_left

\* n_left if dot(n_left, to_street) >= dot(n_right, to_street) else n_right
choose_face(n_left, n_right, to_street) ==
    IF RealGE(dot(n_left, to_street), dot(n_right, to_street)) THEN n_left ELSE n_right

\* workflow_frontage after the two get_points
frontage_result(house_pts, street_pts) ==
    LET f == subtract(house_pts[2], house_pts[1])
        f_u == unit(f)
        n_left == unit(perp(f_u))
        n_right == unit(scale(n_left, -1))
        fm == midpoint(house_pts[1], house_pts[2])
        sm == midpoint(street_pts[1], street_pts[2])
        to_street == unit(subtract(sm, fm))
        n_face == choose_face(n_left, n_right, to_street)
        b == bearing_from_vector(n_face.x, n_face.y)
    IN  [n_left |-> n_left, n_right |-> n_right, to_street |-> to_street,
         n_face |-> n_face, b |-> b, c |-> compass_8(b)]

\* ===================== house_orientation_v2.py =====================

\* math.degrees(math.atan2(dx, -dy)) % 360
bearing_from_vec(dx, dy) == PyMod360(Fl(Atan2Deg(dx, -dy, dy = 0)))

compass8(b) ==
    LET dirs == <<"N", "NE", "E", "SE", "S", "SW", "W", "NW">>
    IN  dirs[(((b.d + HalfSector) \div Sector) % 8) + 1]

\* ===================== improved_orientation.py =====================

\* (90 - theta) % 360 with theta = degrees(atan2(dy, dx)); the coordinates may carry
\* a common positive factor
bearing_from_point_to_point(px, py, qx, qy) ==
    LET dx == qx - px
        dy == qy - py
        theta == Atan2Deg(dy, dx, FALSE)
    IN  PyMod360(Fl(900 - theta))

bearing_to_compass(bearing_deg) ==
    LET dirs == <<"N", "NE", "E", "SE", "S", "SW", "W", "NW">>
    IN  dirs[(((bearing_deg.d + HalfSector) \div Sector) % 8) + 1]

\* _transformer_fwd.transform(lon, lat): the EPSG:3857 projection is a library
\* call; over the few metres of a search radius it is a scaling of the offsets
\* from the map origin, modelled as metres per grid unit of longitude / latitude
to_3857_xy(lon, lat) == <<5 * lon, 5 * lat>>

\* a squared distance n / m in lowest terms (m = 0: float("inf"))
Rat(n, m) == LET g == GCD(n, m) IN [n |-> n \div g, m |-> m \div g]

Inf == [n |-> 1, m |-> 0]

\* d < best_dist for two distances given by their squares
DistLess(d, e) == d.n * e.m < e.n * d.m

\* Nearest point of segment a-b to p: the foot of the perpendicular when it falls
\* within the segment, else the nearer end.  s / L is the position along a-b.
SegFoot(p, a, b) ==
    LET ux == b[1] - a[1]
        uy == b[2] - a[2]
        L == ux * ux + uy * uy
        s0 == (p[1] - a[1]) * ux + (p[2] - a[2]) * uy
    IN  IF L = 0 THEN [s |-> 0, L |-> 1]
        ELSE IF s0 <= 0 THEN [s |-> 0, L |-> 1]
        ELSE IF s0 >= L THEN [s |-> 1, L |-> 1]
        ELSE LET g == GCD(s0, L) IN [s |-> s0 \div g, L |-> L \div g]

\* the point a + (s / L) * (b - a), as (x, y) / k
SegPoint(a, b, t) ==
    LET xn == a[1] * t.L + t.s * (b[1] - a[1])
        yn == a[2] * t.L + t.s * (b[2] - a[2])
        g == GCD(GCD(Abs(xn), Abs(yn)), t.L)
    IN  [x |-> xn \div g, y |-> yn \div g, k |-> t.L \div g, r |-> 1]

\* squared distance from the integer point p to the point q = (x, y) / k
Dist2(p, q) ==
    LET dx == q.x - p[1] * q.k
        dy == q.y - p[2] * q.k
    IN  Rat(dx * dx + dy * dy, q.k * q.k)

SegDist2(p, a, b) == Dist2(p, SegPoint(a, b, SegFoot(p, a, b)))

\* index of the first segment of the line nearest to p
RECURSIVE NearestSeg(_, _, _, _)
NearestSeg(p, line, i, besti) ==
    IF i > Len(line) - 1 THEN besti
    ELSE IF DistLess(SegDist2(p, line[i], line[i + 1]),
                     SegDist2(p, line[besti], line[besti + 1]))
         THEN NearestSeg(p, line, i + 1, i)
         ELSE NearestSeg(p, line, i + 1, besti)

\* shapely p.distance(line), as the square of the distance
distance(p, line) ==
    LET i == NearestSeg(p, line, 2, 1) IN SegDist2(p, line[i], line[i + 1])

\* shapely line.project(p): the position along the line of its point nearest to
\* p, kept as the segment and the fraction of it (the lengths are irrational)
project(line, p) ==
    LET i == NearestSeg(p, line, 2, 1)
    IN  [seg |-> i, t |-> SegFoot(p, line[i], line[i + 1])]

\* faulty variant: the fraction along the segment is dropped
interpolate_start(line, pos) ==
    SegPoint(line[pos.seg], line[pos.seg + 1], [s |-> 0, L |-> 1])

\* shapely line.interpolate(position)
interpolate(line, pos) == SegPoint(line[pos.seg], line[pos.seg + 1], pos.t)

\* floor of the square root
RECURSIVE ISqrt(_, _, _)
ISqrt(n, lo, hi) ==
    IF lo = hi THEN lo
    ELSE LET mid == (lo + hi + 1) \div 2
         IN  IF mid * mid <= n THEN ISqrt(n, mid, hi) ELSE ISqrt(n, lo, mid - 1)

\* round(d, 2) of the distance d = sqrt(n / m), in hundredths
round2_dist(d) ==
    LET s == ISqrt((40000 * d.n) \div d.m, 0, 40000) IN (s + 1) \div 2

\* round(bearing, 2): tenths of a degree are kept, a tiny residue rounds to 0.0
round2_bearing(b) == Fl(b.d)

project_line(road_ll) == [j \in 1..Len(road_ll) |-> to_3857_xy(road_ll[j][1], road_ll[j][2])]

\* faulty variant: d <= best_dist
loop_body_le(p, road_ll, st) ==
    LET road_xy == project_line(road_ll)
        d == distance(p, road_xy)
    IN  IF ~DistLess(st.best_dist, d) THEN [best |-> road_xy, best_dist |-> d] ELSE st

\* one pass of "for road_ll in roads": st = [best, best_dist]
loop_body(p, road_ll, st) ==
    LET road_xy == project_line(road_ll)
        d == distance(p, road_xy)
    IN  IF DistLess(d, st.best_dist) THEN [best |-> road_xy, best_dist |-> d] ELSE st

\* lines 87-97: the nearest point on best and the returned dict
road_result(p, best, best_dist) ==
    LET q == interpolate(best, project(best, p))
        bearing == bearing_from_point_to_point(p[1] * q.k, p[2] * q.k, q.x, q.y)
    IN  [q |-> q, bearing_deg |-> round2_bearing(bearing),
         compass |-> bearing_to_compass(bearing),
         distance_to_road_m |-> round2_dist(best_dist), note |-> ""]

\* np.mean(house_points, axis=0), as (sum x, sum y) / count
RECURSIVE SumPts(_, _)
SumPts(ps, n) ==
    IF n = 0 THEN Vec(0, 0)
    ELSE LET t == SumPts(ps, n - 1)
         IN  [t EXCEPT !.x = t.x + ps[n].x, !.y = t.y + ps[n].y]

mean(ps) == [SumPts(ps, Len(ps)) EXCEPT !.k = Len(ps)]

\* np.linalg.norm(np.array(tp[1]) - house), as the square of the norm
norm2(w) == Rat(w.x * w.x + w.y * w.y, w.k * w.k)

\* Python's min(seq, key=...): the first element whose key is least
RECURSIVE min_index(_, _, _, _)
min_index(cands, house, i, besti) ==
    IF i > Len(cands) THEN besti
    ELSE IF DistLess(norm2(subtract(cands[i].p, house)),
                     norm2(subtract(cands[besti].p, house)))
         THEN min_index(cands, house, i + 1, i)
         ELSE min_index(cands, house, i + 1, besti)

\* [x for x in seq if Keep(x)]
RECURSIVE Filter(_, _, _)
Filter(seq, Keep(_), n) ==
    IF n = 0 THEN <<>>
    ELSE IF Keep(seq[n]) THEN Append(Filter(seq, Keep, n - 1), seq[n])
         ELSE Filter(seq, Keep, n - 1)

\* str(target_label) for the script's target_label = 13
TargetText == <<"1", "3">>

IsHouse(tp) == tp.t = TargetText

IsRoadCandidate(tp) == Len(tp.t) > LongWord

\* find_orientation after get_text_boxes, lines 35-51
orientation_result(texts) ==
    LET house_tps == Filter(texts, IsHouse, Len(texts))
        house_points == [j \in 1..Len(house_tps) |-> house_tps[j].p]
        road_candidates == Filter(texts, IsRoadCandidate, Len(texts))
    IN  IF house_points = <<>> THEN [err |-> "ValueError: Could not find label"]
        ELSE IF road_candidates = <<>> THEN [err |-> "ValueError: No road label detected"]
        ELSE LET house == mean(house_points)
                 tp == road_candidates[min_index(road_candidates, house, 2, 1)]
                 w == subtract(tp.p, house)
                 b == bearing_from_vec(w.x, w.y)
             IN  [err |-> "", house |-> house, road |-> tp, b |-> b, c |-> compass8(b)]

\* ===================== state =====================
VARIABLES
    pc,          \* position in the running script
    mode,        \* the workflow or function that runs
    err,         \* the exception raised, "" for none
    clicked,     \* get_points: what plt.ginput returned
    pts,         \* workflow_vector: pts
    house_pts,   \* workflow_frontage: house_pts
    street_pts,  \* workflow_frontage: street_pts
    n_face,      \* workflow_frontage: n_face
    b,           \* the bearing computed
    c,           \* the compass label computed
    a,           \* the angle a pure function is applied to
    v,           \* the vector / point pair a pure function is applied to
    lonlat,      \* nearest_road_bearing_from_address: (lon, lat)
    roads,       \* ... roads
    p,           \* ... (px, py)
    i,           \* ... position of the for loop in roads
    st,          \* ... best, best_dist
    ret,         \* ... the dict returned
    texts,       \* find_orientation: texts
    house,       \* find_orientation: house
    road         \* find_orientation: (road, road_point)

vars == <<pc, mode, err, clicked, pts, house_pts, street_pts, n_face, b, c, a, v,
          lonlat, roads, p, i, st, ret, texts, house, road>>

manual_vars == <<clicked, pts, house_pts, street_pts, n_face>>
pure_vars == <<a, v>>
road_vars == <<lonlat, roads, p, i, st, ret>>
ocr_vars == <<texts, house, road>>

NoAngle == [d |-> -1, eps |-> 0]
NoWord == [t |-> <<>>, p |-> Vec(0, 0)]
NoRet == [q |-> Vec(0, 0), bearing_deg |-> NoAngle, compass |-> "",
          distance_to_road_m |-> -1, note |-> ""]

Init ==
    /\ pc = "start" /\ mode = "" /\ err = ""
    /\ clicked = <<>> /\ pts = <<>> /\ house_pts = <<>> /\ street_pts = <<>>
    /\ n_face = Vec(0, 0)
    /\ b = NoAngle /\ c = ""
    /\ a = NoAngle /\ v = <<>>
    /\ lonlat = <<0, 0>> /\ roads = <<>> /\ p = <<0, 0>> /\ i = 0
    /\ st = [best |-> <<>>, best_dist |-> Inf]
    /\ ret = NoRet
    /\ texts = <<>> /\ house = Vec(0, 0) /\ road = NoWord

\* ---------- house_orientation.py: main and the two workflows ----------

\* main: args.mode selects the workflow
Main ==
    /\ pc = "start"
    /\ \E m \in {"vector", "frontage"} : mode' = m
    /\ pc' = "get1"
    /\ UNCHANGED <<err, b, c>>
    /\ UNCHANGED <<manual_vars, pure_vars, road_vars, ocr_vars>>

\* workflow_vector: pts = get_points(ax, 2, ...)
GetPointsVector ==
    /\ pc = "get1" /\ mode = "vector"
    /\ \E g \in ginput(2) :
         /\ clicked' = g
         /\ IF get_points_raises(g, 2)
            THEN err' = "RuntimeError" /\ pc' = "raised" /\ pts' = pts
            ELSE err' = err /\ pc' = "compute" /\ pts' = g
    /\ UNCHANGED <<mode, b, c, house_pts, street_pts, n_face>>
    /\ UNCHANGED <<pure_vars, road_vars, ocr_vars>>

\* workflow_frontage: house_pts = get_points(ax, 2, ...)
GetPointsHouse ==
    /\ pc = "get1" /\ mode = "frontage"
    /\ \E g \in ginput(2) :
         /\ clicked' = g
         /\ IF get_points_raises(g, 2)
            THEN err' = "RuntimeError" /\ pc' = "raised" /\ house_pts' = house_pts
            ELSE err' = err /\ pc' = "get2" /\ house_pts' = g
    /\ UNCHANGED <<mode, b, c, pts, street_pts, n_face>>
    /\ UNCHANGED <<pure_vars, road_vars, ocr_vars>>

\* workflow_frontage: street_pts = get_points(ax, 2, ...)
GetPointsStreet ==
    /\ pc = "get2" /\ mode = "frontage"
    /\ \E g \in ginput(2) :
         /\ clicked' = g
         /\ IF get_points_raises(g, 2)
            THEN err' = "RuntimeError" /\ pc' = "raised" /\ street_pts' = street_pts
            ELSE err' = err /\ pc' = "compute" /\ street_pts' = g
    /\ UNCHANGED <<mode, b, c, pts, house_pts, n_face>>
    /\ UNCHANGED <<pure_vars, road_vars, ocr_vars>>

\* workflow_vector, lines 90-95
WorkflowVector ==
    /\ pc = "compute" /\ mode = "vector"
    /\ LET res == vector_result(pts) IN b' = res.b /\ c' = res.c
    /\ pc' = "done"
    /\ UNCHANGED <<mode, err, manual_vars, pure_vars, road_vars, ocr_vars>>

\* workflow_frontage, lines 107-135
WorkflowFrontage ==
    /\ pc = "compute" /\ mode = "frontage"
    /\ LET res == frontage_result(house_pts, street_pts)
       IN  n_face' = res.n_face /\ b' = res.b /\ c' = res.c
    /\ pc' = "done"
    /\ UNCHANGED <<mode, err, clicked, pts, house_pts, street_pts>>
    /\ UNCHANGED <<pure_vars, road_vars, ocr_vars>>

NextManual ==
    \/ Main
    \/ GetPointsVector
    \/ GetPointsHouse
    \/ GetPointsStreet
    \/ WorkflowVector
    \/ WorkflowFrontage

SpecManual == Init /\ [][NextManual]_vars

\* ---------- the pure angle functions, applied to bounded inputs ----------

AngleInputs ==
    {Fl(d) : d \in -(MaxTurns * FullTurn)..(MaxTurns * FullTurn)}
        \cup {[d |-> 0, eps |-> e] : e \in {-1, 1}}

\* what the bearing functions can hand to the compass functions
BearingInputs == {Fl(d) : d \in 0..FullTurn} \cup {[d |-> 0, eps |-> 1]}

Comps == -VecMax..VecMax

Apply(f) ==
    /\ pc = "start"
    /\ mode' = f
    /\ pc' = "done"
    /\ UNCHANGED <<err, manual_vars, road_vars, ocr_vars>>

NormalizeAngleDeg ==
    /\ Apply("normalize_angle_deg")
    /\ \E x \in AngleInputs : a' = x /\ b' = normalize_angle_deg(x)
    /\ UNCHANGED <<c, v>>

BearingFromVector ==
    /\ Apply("bearing_from_vector")
    /\ \E dx \in Comps, dy \in Comps : v' = <<dx, dy>> /\ b' = bearing_from_vector(dx, dy)
    /\ UNCHANGED <<c, a>>

BearingFromVec ==
    /\ Apply("bearing_from_vec")
    /\ \E dx \in Comps, dy \in Comps : v' = <<dx, dy>> /\ b' = bearing_from_vec(dx, dy)
    /\ UNCHANGED <<c, a>>

BearingFromPointToPoint ==
    /\ Apply("bearing_from_point_to_point")
    /\ \E px \in Comps, py \in Comps, qx \in Comps, qy \in Comps :
         /\ v' = <<px, py, qx, qy>>
         /\ b' = bearing_from_point_to_point(px, py, qx, qy)
    /\ UNCHANGED <<c, a>>

Compass_8 ==
    /\ Apply("compass_8")
    /\ \E x \in BearingInputs : a' = x /\ c' = compass_8(x)
    /\ UNCHANGED <<b, v>>

Compass8 ==
    /\ Apply("compass8")
    /\ \E x \in BearingInputs : a' = x /\ c' = compass8(x)
    /\ UNCHANGED <<b, v>>

BearingToCompass ==
    /\ Apply("bearing_to_compass")
    /\ \E x \in BearingInputs : a' = x /\ c' = bearing_to_compass(x)
    /\ UNCHANGED <<b, v>>

NextAngle ==
    \/ NormalizeAngleDeg
    \/ BearingFromVector
    \/ BearingFromVec
    \/ BearingFromPointToPoint
    \/ Compass_8
    \/ Compass8
    \/ BearingToCompass

SpecAngle == Init /\ [][NextAngle]_vars

\* ---------- improved_orientation.py: nearest_road_bearing_from_address ----------

\* addresses geocode to these (lon, lat), roads run between these vertices
HouseLonLat == {<<0, 0>>, <<2, 0>>, <<0, 1>>}

RoadVertices == {<<1, 1>>, <<1, -1>>, <<-1, 1>>, <<-1, -1>>}

\* LineStrings with two distinct vertices, and with three distinct ones from (-1, 1)
RoadLines ==
    {l \in [1..2 -> RoadVertices] : l[1] # l[2]}
        \cup {l \in [1..3 -> RoadVertices] :
                l[1] = <<-1, 1>> /\ l[2] # l[1] /\ l[3] \notin {l[1], l[2]}}

\* lon, lat = geocode(address)
Geocode ==
    /\ pc = "start"
    /\ mode' = "nearest_road"
    /\ \E ll \in HouseLonLat : lonlat' = ll
    /\ pc' = "fetch"
    /\ UNCHANGED <<err, b, c, roads, p, i, st, ret>>
    /\ UNCHANGED <<manual_vars, pure_vars, ocr_vars>>

\* geocode: raise ValueError("Address not found")
GeocodeNotFound ==
    /\ pc = "start"
    /\ mode' = "nearest_road"
    /\ err' = "ValueError: Address not found"
    /\ pc' = "raised"
    /\ UNCHANGED <<b, c, manual_vars, pure_vars, road_vars, ocr_vars>>

\* roads = fetch_nearby_roads(...); if not roads: return {... "note": ...};
\* px, py = to_3857_xy(lon, lat); best = None; best_dist = float("inf")
FetchNearbyRoads ==
    /\ pc = "fetch"
    /\ \E rs \in SeqsUpTo(RoadLines, MaxRoads) :
         /\ roads' = rs
         /\ IF rs = <<>>
            THEN /\ ret' = [NoRet EXCEPT !.note = "No roads found nearby"]
                 /\ pc' = "done"
                 /\ UNCHANGED <<p, i>>
            ELSE /\ p' = to_3857_xy(lonlat[1], lonlat[2])
                 /\ i' = 1
                 /\ pc' = "loop"
                 /\ ret' = ret
    /\ UNCHANGED <<mode, err, b, c, lonlat, st>>
    /\ UNCHANGED <<manual_vars, pure_vars, ocr_vars>>

\* one iteration of "for road_ll in roads"
LoopRoad ==
    /\ pc = "loop" /\ i <= Len(roads)
    /\ st' = loop_body(p, roads[i], st)
    /\ i' = i + 1
    /\ UNCHANGED <<pc, mode, err, b, c, lonlat, roads, p, ret>>
    /\ UNCHANGED <<manual_vars, pure_vars, ocr_vars>>

\* after the loop: q, bearing and the returned dict
ReturnNearest ==
    /\ pc = "loop" /\ i > Len(roads)
    /\ ret' = road_result(p, st.best, st.best_dist)
    /\ pc' = "done"
    /\ UNCHANGED <<mode, err, b, c, lonlat, roads, p, i, st>>
    /\ UNCHANGED <<manual_vars, pure_vars, ocr_vars>>

\* ---------- house_orientation_v2.py: find_orientation ----------

OcrPts == {Vec(5, 5), Vec(0, 0), Vec(10, 0), Vec(0, 10)}

OcrTexts == {<<"1", "3">>, <<"R", "o", "a", "d">>, <<"D", "a", "v", "i", "d">>,
             <<"S", "t", "r", "e", "e", "t">>}

OcrWords == {[t |-> t, p |-> q] : t \in OcrTexts, q \in OcrPts}

\* texts = get_text_boxes(img)
GetTextBoxes ==
    /\ pc = "start"
    /\ mode' = "find_orientation"
    /\ \E ts \in SeqsUpTo(OcrWords, MaxWords) : texts' = ts
    /\ pc' = "ocr"
    /\ UNCHANGED <<err, b, c, house, road>>
    /\ UNCHANGED <<manual_vars, pure_vars, road_vars>>

\* find_orientation, lines 35-51
FindOrientation ==
    /\ pc = "ocr"
    /\ LET res == orientation_result(texts)
       IN  IF res.err # ""
           THEN err' = res.err /\ pc' = "raised" /\ UNCHANGED <<b, c, house, road>>
           ELSE /\ house' = res.house /\ road' = res.road /\ b' = res.b /\ c' = res.c
                /\ err' = err /\ pc' = "done"
    /\ UNCHANGED <<mode, texts>>
    /\ UNCHANGED <<manual_vars, pure_vars, road_vars>>

NextNearest ==
    \/ Geocode
    \/ GeocodeNotFound
    \/ FetchNearbyRoads
    \/ LoopRoad
    \/ ReturnNearest
    \/ GetTextBoxes
    \/ FindOrientation

SpecNearest == Init /\ [][NextNearest]_vars

\* the three scripts together
Next == NextManual \/ NextAngle \/ NextNearest

Spec == Init /\ [][Next]_vars

\* ===================== properties =====================

ManualDone == pc = "done" /\ mode \in {"vector", "frontage"}

\* the direction vector handed to bearing_from_vector has zero length
ZeroDirection ==
    \/ mode = "vector" /\ pts[1] = pts[2]
    \/ mode = "frontage" /\ house_pts[1] = house_pts[2]

\* C1: whenever the direction vector handed to bearing conversion has zero length
\* (vector workflow with both clicks equal, frontage workflow with h0 = h1), the
\* workflow reports an error and returns no bearing or compass label.
C1_DegenerateReported ==
    (ManualDone /\ ZeroDirection) => (err # "" /\ b = NoAngle /\ c = "")

\* C2: with an empty collection of roads nearest_road_bearing_from_address fails
\* with an error; it never returns a result value.
C2_EmptyRoadsFail ==
    (mode = "nearest_road" /\ pc = "done") => roads # <<>>

InRange(x) == (x.d > 0 \/ (x.d = 0 /\ x.eps >= 0)) /\ x.d < FullTurn

Congruent(x, y) ==
    x.eps = y.eps /\ \E k \in -(MaxTurns + 1)..(MaxTurns + 1) : x.d = y.d + k * FullTurn

\* C3: for every input angle the normalized bearing lies in [0, 360) and is congruent
\* to the input modulo 360, and every bearing producer returns a bearing in [0, 360).
C3_NormalizedRange ==
    /\ (pc = "done" /\ mode = "normalize_angle_deg") => (InRange(b) /\ Congruent(b, a))
    /\ (pc = "done" /\ mode \in {"bearing_from_vector", "bearing_from_vec",
                                  "bearing_from_point_to_point"}) => InRange(b)

C4_Labels == <<"N", "NE", "E", "SE", "S", "SW", "W", "NW">>

\* C4: for a bearing in [0, 360) the label is the one whose 45-degree sector, centred
\* on its direction and closed at its lower edge, holds the bearing (22.5 -> NE,
\* 0 -> N, 359.9 -> N), and the three implementations give that same label.
C4_CompassSectors ==
    (pc = "done" /\ mode \in {"compass_8", "compass8", "bearing_to_compass"} /\ InRange(a)) =>
        /\ \E k \in 0..7 :
             /\ c = C4_Labels[k + 1]
             /\ ((a.d - 450 * k + 225) % 3600) < 450
        /\ (a.d = 225 => c = "NE")
        /\ (a.d = 0 => c = "N")
        /\ (a.d = 3599 => c = "N")
        /\ c = compass_8(a) /\ c = compass8(a) /\ c = bearing_to_compass(a)

C4_Witness ==
    pc = "done" /\ mode = "bearing_to_compass" /\ a = Fl(225) /\ c = "NE"

FrontageDone == pc = "done" /\ mode = "frontage"

\* h1 - h0 and (s0 + s1) - (h0 + h1), i.e. the frontage and twice to_street, unscaled
RawF == <<house_pts[2].x - house_pts[1].x, house_pts[2].y - house_pts[1].y>>

RawT == <<street_pts[1].x + street_pts[2].x - house_pts[1].x - house_pts[2].x,
          street_pts[1].y + street_pts[2].y - house_pts[1].y - house_pts[2].y>>

\* C5: with a non-degenerate frontage n_face is a unit normal of the frontage (so one
\* of n_left, n_right) and dot(n_face, to_street) >= 0; for frontage (0,0)-(10,0) and
\* both street points at y > 0, n_face has a positive dot product with (0, 1).
C5_FaceTowardStreet ==
    (FrontageDone /\ house_pts[1] # house_pts[2]) =>
        /\ n_face.x * RawF[1] + n_face.y * RawF[2] = 0
        /\ n_face.k = 1 /\ n_face.r = n_face.x * n_face.x + n_face.y * n_face.y
        /\ n_face.r > 0
        /\ n_face.x * RawT[1] + n_face.y * RawT[2] >= 0
        /\ (/\ house_pts = <<Vec(0, 0), Vec(10, 0)>>
            /\ street_pts[1].y > 0 /\ street_pts[2].y > 0) => n_face.y > 0

C5_Witness ==
    /\ FrontageDone
    /\ house_pts = <<Vec(0, 0), Vec(10, 0)>>
    /\ street_pts[1].y > 0 /\ street_pts[2].y > 0
    /\ n_face = Vec(0, 1)

\* the prefix of roads the loop has been through
Seen == IF pc = "done" THEN Len(roads) ELSE i - 1

RoadDist(k) == distance(p, project_line(roads[k]))

HouseDist(tp) ==
    LET dx == tp.p.x * house.k - house.x
        dy == tp.p.y * house.k - house.y
    IN  dx * dx + dy * dy

\* C6: the nearest-candidate search returns a candidate at the least distance and,
\* among several at that distance, the first in input order: the roads the loop has
\* been through, and the long words of the OCR variant.
C6_FirstNearest ==
    /\ (mode = "nearest_road" /\ pc \in {"loop", "done"} /\ Seen >= 1) =>
          \E j \in 1..Seen :
              /\ st.best = project_line(roads[j])
              /\ st.best_dist = RoadDist(j)
              /\ \A k \in 1..Seen : ~DistLess(RoadDist(k), RoadDist(j))
              /\ \A k \in 1..(j - 1) : DistLess(RoadDist(j), RoadDist(k))
    /\ (mode = "find_orientation" /\ pc = "done") =>
          \E j \in 1..Len(texts) :
              /\ road = texts[j] /\ Len(road.t) > 4
              /\ \A k \in 1..Len(texts) :
                    Len(texts[k].t) > 4 => HouseDist(texts[k]) >= HouseDist(road)
              /\ \A k \in 1..(j - 1) :
                    Len(texts[k].t) > 4 => HouseDist(texts[k]) > HouseDist(road)

\* two different roads at the same least distance: the first was returned
C6_Witness ==
    /\ mode = "nearest_road" /\ pc = "done" /\ Len(roads) = 2
    /\ project_line(roads[1]) # project_line(roads[2])
    /\ RoadDist(1) = RoadDist(2)
    /\ st.best = project_line(roads[1])

RoadDone == mode = "nearest_road" /\ pc = "done" /\ roads # <<>>

\* q = (x, y) / k is the nearest point of segment e0-e1 to p: the foot of the
\* perpendicular from p when that lies within e0-e1, else the nearer end
NearestOnSegment(q, e0, e1) ==
    LET ux == e1[1] - e0[1]
        uy == e1[2] - e0[2]
        L == ux * ux + uy * uy
        sp == (p[1] - e0[1]) * ux + (p[2] - e0[2]) * uy
        sq == (q.x - e0[1] * q.k) * ux + (q.y - e0[2] * q.k) * uy
    IN  \/ /\ 0 < sp /\ sp < L
           /\ (p[1] * q.k - q.x) * ux + (p[2] * q.k - q.y) * uy = 0
           /\ 0 < sq /\ sq < L * q.k
           /\ (q.x - e0[1] * q.k) * uy = (q.y - e0[2] * q.k) * ux
        \/ sp <= 0 /\ q = Vec(e0[1], e0[2])
        \/ sp >= L /\ q = Vec(e1[1], e1[2])

QIsNearest ==
    /\ \E s \in 1..(Len(st.best) - 1) : NearestOnSegment(ret.q, st.best[s], st.best[s + 1])
    /\ Dist2(p, ret.q) = st.best_dist
    /\ \A s \in 1..(Len(st.best) - 1) :
          ~DistLess(SegDist2(p, st.best[s], st.best[s + 1]), st.best_dist)

C7_Example ==
    (p = <<0, 0>> /\ st.best = << <<5, 5>>, <<5, -5>> >>) =>
        (ret.q = Vec(5, 0) /\ ret.distance_to_road_m = 500)

C8_Cardinals ==
    /\ (pc = "done" /\ mode \in {"bearing_from_vector", "bearing_from_vec"}) =>
          /\ (v = <<0, -1>> => b = Fl(0))
          /\ (v = <<1, 0>> => b = Fl(900))
          /\ (v = <<0, 1>> => b = Fl(1800) /\ compass_8(b) = "S")
          /\ (v = <<-1, 0>> => b = Fl(2700))
    /\ (pc = "done" /\ mode = "bearing_from_point_to_point") =>
          LET d == <<v[3] - v[1], v[4] - v[2]>>
          IN  /\ (d = <<0, 1>> => b = Fl(0) /\ bearing_to_compass(b) = "N")
              /\ (d = <<1, 0>> => b = Fl(900))
              /\ (d = <<0, -1>> => b = Fl(1800))
              /\ (d = <<-1, 0>> => b = Fl(2700))

C8_Witness ==
    pc = "done" /\ mode = "bearing_from_point_to_point" /\ v = <<0, 0, 0, 1>> /\ b = Fl(0)

\* C9: a manual workflow goes on to compute a bearing only when every get_points got
\* exactly the 2 points it asked for; on any other count get_points raises and the
\* workflow returns no result.
C9_CountChecked ==
    (mode \in {"vector", "frontage"} /\ pc # "get1") =>
        /\ (Len(clicked) # 2) <=> (pc = "raised")
        /\ pc = "raised" => (err = "RuntimeError" /\ b = NoAngle /\ c = "")
        /\ (pc \in {"compute", "done"} /\ mode = "vector") => (Len(pts) = 2 /\ pts = clicked)
        /\ (pc \in {"compute", "done"} /\ mode = "frontage") =>
              (Len(house_pts) = 2 /\ Len(street_pts) = 2 /\ street_pts = clicked)
        /\ pc = "done" => b # NoAngle

\* the street clicks came one short, after two house clicks
C9_Witness ==
    mode = "frontage" /\ pc = "raised" /\ Len(house_pts) = 2 /\ Len(clicked) = 1

Swapped == frontage_result(<<house_pts[2], house_pts[1]>>, street_pts)

\* dot of perp(h1 - h0) with the unscaled to_street: 0 when the two dot products tie
RawDot == (-RawF[2]) * RawT[1] + RawF[1] * RawT[2]

\* C10 as stated: giving the frontage points as (h1, h0) instead of (h0, h1) yields
\* the same n_face and the same bearing for every input, ties included.
C10_SwapAlways ==
    FrontageDone => (Swapped.n_face = n_face /\ Swapped.b = b)

\* C10 amended: the same n_face and bearing whenever the two dot products differ;
\* in a tie each order picks its own n_left, and the two are opposite.
C10_SwapOffLine ==
    FrontageDone =>
        /\ RawDot # 0 => (Swapped.n_face = n_face /\ Swapped.b = b /\ Swapped.c = c)
        /\ RawDot = 0 => (Swapped.n_face = scale(n_face, -1) /\ n_face = unit(perp(Vec(RawF[1], RawF[2]))))

\* the street midpoint is strictly off the line of a non-degenerate frontage
C10_Witness ==
    FrontageDone /\ RawDot # 0 /\ Swapped.n_face = n_face /\ n_face # Vec(0, 0)
====
